---- MODULE Spec2Model ----
(***************************************************************************)
(* A model of wave (src/main.rs): the RIFF/WAVE parser WAVFile::parse with *)
(* its byte readers, the SDL audio callback AudioPlayer::callback with the *)
(* mutex-guarded shared position, main's render loop and draw_waveform.    *)
(*                                                                         *)
(* Three specifications share the variables:                               *)
(*   SpecParse  main lines 133-135: a file is read and parsed;             *)
(*   SpecPlay   main lines 139-191: the audio thread's callbacks           *)
(*              interleaved with the render loop;                          *)
(*   SpecDraw   draw_waveform applied to buffers around the 4096-sample    *)
(*              window.                                                    *)
(***************************************************************************)
EXTENDS Integers, Sequences, FiniteSets, TLC

VARIABLES
    source,           \* history: what the file was generated from
    file,             \* the bytes fs::read returned (main.rs:134), never changed
    data,             \* main's `data: Vec<u8>`, drained by the readers
    wav,              \* main's `wav: WAVFile`
    parse_result,     \* outcome of wav.parse(&mut data): "pending" before the call
    main_result,      \* what main line 135 does with it
    position,         \* AudioPlayer.position
    shared_position,  \* the usize inside Arc<Mutex<usize>>
    mutex,            \* owner of the Mutex: "free", "audio" or "render"
    audio_pc,         \* where the audio thread is inside callback
    out,              \* the callback's `out: &mut [i16]`
    out_idx,          \* number of elements of `out` the for loop has visited
    entry_position,   \* history: AudioPlayer.position on entry to the callback
    block_ends,       \* history: position at the end of every completed callback
    render_pc,        \* where the render loop is
    played_samples,   \* main's local `played_samples` (0 before the first read)
    canvas            \* result of the last draw_waveform call

vars == << source, file, data, wav, parse_result, main_result, position, shared_position,
           mutex, audio_pc, out, out_idx, entry_position, block_ends, render_pc,
           played_samples, canvas >>

parseVars == << source, file, data, wav, parse_result, main_result >>
playVars == << position, shared_position, mutex, audio_pc, out, out_idx,
               entry_position, block_ends, render_pc, played_samples, canvas >>

(***************************************************************************)
(* Integer helpers.                                                        *)
(***************************************************************************)
Pow2(n) == 2 ^ n

Min(a, b) == IF a <= b THEN a ELSE b

\* Rust's integer `/` truncates toward zero (TLA+'s \div floors)
TruncDiv(a, b) == IF a >= 0 THEN a \div b ELSE -((-a) \div b)

\* A u32 is kept as its two 16-bit halves << low, high >>: TLC's integers are
\* 32-bit signed and cannot hold the upper half of the u32 range.
U32(n) == << n % Pow2(16), n \div Pow2(16) >>

\* `len < v as usize` for a length and a u32 (main.rs:68)
LenLessThan(len, v) ==
    \/ len \div Pow2(16) < v[2]
    \/ len \div Pow2(16) = v[2] /\ len % Pow2(16) < v[1]

\* `v as usize`, for a u32 known not to exceed a length
as_usize(v) == v[2] * Pow2(16) + v[1]

\* seq with its first n elements removed: Vec::drain(0..n) on a long enough Vec
Drain(seq, n) == SubSeq(seq, n + 1, Len(seq))

(***************************************************************************)
(* std::str::from_utf8 on a byte sequence (main.rs:103).                   *)
(***************************************************************************)
IsCont(b) == b >= 128 /\ b <= 191

RECURSIVE Utf8Valid(_)
Utf8Valid(bytes) ==
    IF bytes = << >> THEN TRUE
    ELSE LET b0 == bytes[1]
             n  == Len(bytes)
         IN  IF b0 <= 127 THEN Utf8Valid(Drain(bytes, 1))
             ELSE IF b0 >= 194 /\ b0 <= 223
                  THEN n >= 2 /\ IsCont(bytes[2]) /\ Utf8Valid(Drain(bytes, 2))
             ELSE IF b0 >= 224 /\ b0 <= 239
                  THEN /\ n >= 3
                       /\ IF b0 = 224 THEN bytes[2] >= 160 /\ bytes[2] <= 191
                          ELSE IF b0 = 237 THEN bytes[2] >= 128 /\ bytes[2] <= 159
                          ELSE IsCont(bytes[2])
                       /\ IsCont(bytes[3])
                       /\ Utf8Valid(Drain(bytes, 3))
             ELSE IF b0 >= 240 /\ b0 <= 244
                  THEN /\ n >= 4
                       /\ IF b0 = 240 THEN bytes[2] >= 144 /\ bytes[2] <= 191
                          ELSE IF b0 = 244 THEN bytes[2] >= 128 /\ bytes[2] <= 143
                          ELSE IsCont(bytes[2])
                       /\ IsCont(bytes[3])
                       /\ IsCont(bytes[4])
                       /\ Utf8Valid(Drain(bytes, 4))
             ELSE FALSE

(***************************************************************************)
(* The byte readers (main.rs:86-106).  Each returns a record               *)
(*   status: "ok", "panic" (index out of bounds) or "err" (Utf8Error),     *)
(*   value:  the value read,                                               *)
(*   rest:   the Vec after the call.                                       *)
(***************************************************************************)
little_to_big_u32(d) ==
    IF Len(d) < 4
    THEN [status |-> "panic", value |-> U32(0), rest |-> d]
    ELSE [status |-> "ok",
          value  |-> << d[1] + d[2] * Pow2(8), d[3] + d[4] * Pow2(8) >>,
          rest   |-> Drain(d, 4)]

little_to_big_u16(d) ==
    IF Len(d) < 2
    THEN [status |-> "panic", value |-> 0, rest |-> d]
    ELSE [status |-> "ok",
          value  |-> d[1] + d[2] * Pow2(8),
          rest   |-> Drain(d, 2)]

bytes_to_boxed_str(d) ==
    IF Len(d) < 4
    THEN [status |-> "panic", value |-> << >>, rest |-> d]
    ELSE LET bytes == SubSeq(d, 1, 4)
         IN  IF ~Utf8Valid(bytes)
             THEN [status |-> "err", value |-> << >>, rest |-> d]
             ELSE [status |-> "ok", value |-> bytes, rest |-> Drain(d, 4)]

(***************************************************************************)
(* WAVFile and Header (main.rs:12-48).  A Box<str> is kept as its bytes.   *)
(***************************************************************************)
Header_default ==
    [chunk_id |-> << >>, chunk_size |-> U32(0), format |-> << >>,
     subchunk1_id |-> << >>, subchunk1_size |-> U32(0), audio_format |-> 0,
     num_channels |-> 0, sample_rate |-> U32(0), byte_rate |-> U32(0),
     block_align |-> 0, bits_per_sample |-> 0,
     subchunk2_id |-> << >>, subchunk2_size |-> U32(0)]

WAVFile_new == [header |-> Header_default, data_size |-> U32(0), data |-> << >>]

\* the twelve fields parse reads before subchunk2_size, in the order of lines 51-62
HeaderFields ==
    << [name |-> "chunk_id",        kind |-> "tag"],
       [name |-> "chunk_size",      kind |-> "u32"],
       [name |-> "format",          kind |-> "tag"],
       [name |-> "subchunk1_id",    kind |-> "tag"],
       [name |-> "subchunk1_size",  kind |-> "u32"],
       [name |-> "audio_format",    kind |-> "u16"],
       [name |-> "num_channels",    kind |-> "u16"],
       [name |-> "sample_rate",     kind |-> "u32"],
       [name |-> "byte_rate",       kind |-> "u32"],
       [name |-> "block_align",     kind |-> "u16"],
       [name |-> "bits_per_sample", kind |-> "u16"],
       [name |-> "subchunk2_id",    kind |-> "tag"] >>

ReadField(kind, d) ==
    CASE kind = "tag" -> bytes_to_boxed_str(d)
      [] kind = "u32" -> little_to_big_u32(d)
      [] kind = "u16" -> little_to_big_u16(d)

\* parse's outcomes: the two values of its Result, and the two ways it panics
ResultOk == "Ok"
ResultErrEof == "Err(unexpected end of file)"
PanicIndex == "panic(index out of bounds)"
PanicUnwrap == "panic(unwrap on Utf8Error)"

\* lines 51-62 from field i on: each field is read and stored before the next is
\* read; a reader's panic, or the unwrap of a tag reader's Err, ends the parse.
RECURSIVE ParseHeader(_, _, _)
ParseHeader(i, hdr, d) ==
    IF i > Len(HeaderFields)
    THEN [status |-> ResultOk, header |-> hdr, rest |-> d]
    ELSE LET f == HeaderFields[i]
             r == ReadField(f.kind, d)
         IN  IF r.status = "ok"
             THEN ParseHeader(i + 1, [hdr EXCEPT ![f.name] = r.value], r.rest)
             ELSE [status |-> IF r.status = "err" THEN PanicUnwrap ELSE PanicIndex,
                   header |-> hdr, rest |-> r.rest]

\* mutant of i16_from_le_bytes: the pair is read big-endian
i16_from_be_bytes(b0, b1) ==
    LET u == b1 + b0 * Pow2(8)
    IN  IF u >= Pow2(15) THEN u - Pow2(16) ELSE u

\* i16::from_le_bytes([b0, b1]) (main.rs:77)
i16_from_le_bytes(b0, b1) ==
    LET u == b0 + b1 * Pow2(8)
    IN  IF u >= Pow2(15) THEN u - Pow2(16) ELSE u

\* mutant of pcm_data: chunks(2) in place of chunks_exact(2), the odd last byte
\* becoming a sample of its own
pcm_data_chunks(raw) ==
    [k \in 1..((Len(raw) + 1) \div 2) |->
        i16_from_le_bytes(raw[2 * k - 1], IF 2 * k <= Len(raw) THEN raw[2 * k] ELSE 0)]

\* lines 75-79: one sample per complete pair of raw.chunks_exact(2)
pcm_data(raw) ==
    [k \in 1..(Len(raw) \div 2) |-> i16_from_le_bytes(raw[2 * k - 1], raw[2 * k])]

\* WAVFile::parse (main.rs:50-83): the outcome, self and the Vec after the call
parse(self, d) ==
    LET h == ParseHeader(1, self.header, d)
    IN  IF h.status # ResultOk
        THEN [result |-> h.status, wav |-> [self EXCEPT !.header = h.header],
              data |-> h.rest]
        ELSE LET s == little_to_big_u32(h.rest)
             IN  IF s.status # "ok"
                 THEN [result |-> PanicIndex,
                       wav |-> [self EXCEPT !.header = h.header], data |-> s.rest]
                 ELSE LET data_size == s.value
                          self1 == [self EXCEPT
                                      !.header = [h.header EXCEPT
                                                    !.subchunk2_size = data_size],
                                      !.data_size = data_size]
                      IN  IF LenLessThan(Len(s.rest), data_size)
                          THEN [result |-> ResultErrEof, wav |-> self1,
                                data |-> s.rest]
                          ELSE [result |-> ResultOk,
                                wav |-> [self1 EXCEPT
                                           !.data = pcm_data(SubSeq(s.rest, 1,
                                                             as_usize(data_size)))],
                                data |-> Drain(s.rest, as_usize(data_size))]

(***************************************************************************)
(* Input files.  A file is built from header field values, a sample        *)
(* sequence and optional trailing bytes in the layout of the Header        *)
(* struct's comments (main.rs:16-33): little-endian fields in the fixed    *)
(* 44-byte order, then the samples as little-endian byte pairs.            *)
(***************************************************************************)
MaxSamples == 2      \* longest sample sequence of the generated payloads

HeaderLen == 44

u32_max == << 65535, 65535 >>

SeqsUpTo(S, n) == UNION {[1..k -> S] : k \in 0..n}

le_bytes_u16(v) == << v % 256, (v \div 256) % 256 >>

le_bytes_u32(v) == le_bytes_u16(v[1]) \o le_bytes_u16(v[2])

\* a signed 16-bit sample as its two's complement little-endian byte pair
le_bytes_i16(v) == le_bytes_u16(IF v < 0 THEN v + 65536 ELSE v)

EncodeHeader(h) ==
    h.chunk_id \o le_bytes_u32(h.chunk_size) \o h.format
      \o h.subchunk1_id \o le_bytes_u32(h.subchunk1_size)
      \o le_bytes_u16(h.audio_format) \o le_bytes_u16(h.num_channels)
      \o le_bytes_u32(h.sample_rate) \o le_bytes_u32(h.byte_rate)
      \o le_bytes_u16(h.block_align) \o le_bytes_u16(h.bits_per_sample)
      \o h.subchunk2_id \o le_bytes_u32(h.subchunk2_size)

EncodeSamples(samples) ==
    [i \in 1..(2 * Len(samples)) |->
        le_bytes_i16(samples[(i + 1) \div 2])[2 - (i % 2)]]

EncodeFile(h, samples, trail) == EncodeHeader(h) \o EncodeSamples(samples) \o trail

\* tags: "RIFF", "WAVE", "fmt ", "data"; a valid non-ASCII tag; two invalid ones
TagRIFF == << 82, 73, 70, 70 >>
TagWAVE == << 87, 65, 86, 69 >>
TagFmt == << 102, 109, 116, 32 >>
TagData == << 100, 97, 116, 97 >>
TagNonAscii == << 195, 169, 32, 97 >>      \* U+00E9, ' ', 'a'
TagBadByte == << 82, 255, 70, 70 >>        \* 0xFF never occurs in UTF-8
TagCutShort == << 100, 97, 116, 195 >>     \* a two-byte sequence cut after its lead

TagSamples(canonical) == {canonical, TagNonAscii, TagBadByte, TagCutShort}

\* numeric header values: the spec's example, all-ones, and all bytes distinct
HeaderProfiles ==
    { [chunk_size |-> U32(44), subchunk1_size |-> U32(16), audio_format |-> 1,
       num_channels |-> 2, sample_rate |-> U32(44100), byte_rate |-> U32(176400),
       block_align |-> 4, bits_per_sample |-> 16],
      [chunk_size |-> u32_max, subchunk1_size |-> u32_max, audio_format |-> 65535,
       num_channels |-> 65535, sample_rate |-> u32_max, byte_rate |-> u32_max,
       block_align |-> 65535, bits_per_sample |-> 65535],
      [chunk_size |-> U32(67305985), subchunk1_size |-> U32(134678021),
       audio_format |-> 2569, num_channels |-> 3083,
       sample_rate |-> U32(269422093), byte_rate |-> U32(336794129),
       block_align |-> 5653, bits_per_sample |-> 6167] }

CanonicalProfile ==
    CHOOSE p \in HeaderProfiles : p.sample_rate = U32(44100)

MakeHeader(t1, t2, t3, t4, p, size) ==
    [chunk_id |-> t1, chunk_size |-> p.chunk_size, format |-> t2,
     subchunk1_id |-> t3, subchunk1_size |-> p.subchunk1_size,
     audio_format |-> p.audio_format, num_channels |-> p.num_channels,
     sample_rate |-> p.sample_rate, byte_rate |-> p.byte_rate,
     block_align |-> p.block_align, bits_per_sample |-> p.bits_per_sample,
     subchunk2_id |-> t4, subchunk2_size |-> size]

SampleValues == {0, 1, -1, 32767, -32768}

\* declared payload sizes: below, at and above every generated payload length,
\* and the largest u32
DeclaredSizes == {U32(n) : n \in 0..(2 * MaxSamples + 2)} \cup {u32_max}

\* The generated inputs: header values, samples, trailing bytes after the
\* samples, and the number of bytes of the encoding the file keeps.
Source(h, samples, trail) ==
    [header |-> h, samples |-> samples, trail |-> trail,
     len |-> HeaderLen + 2 * Len(samples) + Len(trail)]

FileOf(src) == SubSeq(EncodeFile(src.header, src.samples, src.trail), 1, src.len)

\* every combination of tags, over a short payload
TagSources ==
    { Source(MakeHeader(t1, t2, t3, t4, CanonicalProfile, size), << 1 >>, << >>) :
        t1 \in TagSamples(TagRIFF), t2 \in TagSamples(TagWAVE),
        t3 \in TagSamples(TagFmt), t4 \in TagSamples(TagData),
        size \in {U32(2), U32(3)} }

\* valid tags, over every header profile, payload and declared size
PayloadSources ==
    { Source(MakeHeader(t[1], t[2], t[3], t[4], p, size), samples, trail) :
        t \in {<< TagRIFF, TagWAVE, TagFmt, TagData >>,
               << TagNonAscii, TagNonAscii, TagNonAscii, TagNonAscii >>},
        p \in HeaderProfiles,
        size \in DeclaredSizes,
        samples \in SeqsUpTo(SampleValues, MaxSamples),
        trail \in {<< >>, << 127 >>} }

\* the example of the spec: subchunk2_size = 8, samples 0, 32767, -32768, 1
ExampleSamples == << 0, 32767, -32768, 1 >>
ExampleSource ==
    Source(MakeHeader(TagRIFF, TagWAVE, TagFmt, TagData, CanonicalProfile, U32(8)),
           ExampleSamples, << >>)

\* files cut short inside the header
TruncatedSources ==
    { [src EXCEPT !.len = n] :
        src \in {ExampleSource,
                 Source(MakeHeader(TagRIFF, TagWAVE, TagBadByte, TagData,
                                   CanonicalProfile, U32(0)), << >>, << >>)},
        n \in 0..(HeaderLen - 1) }

Sources == TagSources \cup PayloadSources \cup TruncatedSources \cup {ExampleSource}

(***************************************************************************)
(* SpecParse: main.rs:133-135.                                             *)
(***************************************************************************)
Canvas_clear == [drawn |-> FALSE, panic |-> FALSE, start |-> 0, end |-> 0,
                 segments |-> << >>]

PlayIdle ==
    /\ position = 0
    /\ shared_position = 0
    /\ mutex = "free"
    /\ audio_pc = "not_started"
    /\ out = << >>
    /\ out_idx = 0
    /\ entry_position = 0
    /\ block_ends = {0}
    /\ render_pc = "not_started"
    /\ played_samples = 0
    /\ canvas = Canvas_clear

\* lines 133-134: wav = WAVFile::new(), data = fs::read(..)
InitParse ==
    /\ source \in Sources
    /\ file = FileOf(source)
    /\ data = file
    /\ wav = WAVFile_new
    /\ parse_result = "pending"
    /\ main_result = "running"
    /\ PlayIdle

\* line 135: wav.parse(&mut data).unwrap()
MainParse ==
    /\ parse_result = "pending"
    /\ LET r == parse(wav, data)
       IN  /\ parse_result' = r.result
           /\ wav' = r.wav
           /\ data' = r.data
           /\ main_result' = IF r.result = ResultOk THEN "running" ELSE "panicked"
    /\ UNCHANGED << source, file, playVars >>

NextParse == MainParse

SpecParse == InitParse /\ [][NextParse]_vars

(***************************************************************************)
(* AudioPlayer::callback (main.rs:117-129), one step per loop iteration,   *)
(* and the Mutex around the shared position.                               *)
(***************************************************************************)
MaxBlock == 3        \* longest `out` the device hands to the callback
MaxPosition == 7     \* callbacks are started while position stays within this
\* (position is a usize: it cannot wrap within any run of this length)

\* what `out` holds before the callback writes it: not a sample of any input
Stale == 12345

Running == main_result = "running" /\ render_pc # "exited"

\* the device invokes callback(&mut self, out) with a block of B elements
CallbackEnter ==
    /\ Running
    /\ audio_pc = "idle"
    /\ \E B \in 1..MaxBlock :
          /\ position + B <= MaxPosition
          /\ out' = [k \in 1..B |-> Stale]
    /\ out_idx' = 0
    /\ entry_position' = position
    /\ audio_pc' = "loop"
    /\ UNCHANGED << parseVars, position, shared_position, mutex, block_ends,
                    render_pc, played_samples, canvas >>

\* mutant of CallbackFill: past the end of the data the element is left as it was
CallbackFill_NoSilence ==
    /\ audio_pc = "loop"
    /\ out_idx < Len(out)
    /\ out' = IF position < Len(wav.data)
              THEN [out EXCEPT ![out_idx + 1] = wav.data[position + 1]]
              ELSE out
    /\ position' = position + 1
    /\ out_idx' = out_idx + 1
    /\ UNCHANGED << parseVars, shared_position, mutex, audio_pc, entry_position,
                    block_ends, render_pc, played_samples, canvas >>

\* mutant of CallbackFill: the position is published inside the loop
CallbackFill_PublishEach ==
    /\ audio_pc = "loop"
    /\ out_idx < Len(out)
    /\ mutex = "free"
    /\ out' = [out EXCEPT ![out_idx + 1] =
                  IF position < Len(wav.data) THEN wav.data[position + 1] ELSE 0]
    /\ position' = position + 1
    /\ shared_position' = position + 1
    /\ out_idx' = out_idx + 1
    /\ UNCHANGED << parseVars, mutex, audio_pc, entry_position,
                    block_ends, render_pc, played_samples, canvas >>

\* lines 118-125: one iteration of `for sample in out.iter_mut()`
CallbackFill ==
    /\ audio_pc = "loop"
    /\ out_idx < Len(out)
    /\ out' = [out EXCEPT ![out_idx + 1] =
                  IF position < Len(wav.data) THEN wav.data[position + 1] ELSE 0]
    /\ position' = position + 1
    /\ out_idx' = out_idx + 1
    /\ UNCHANGED << parseVars, shared_position, mutex, audio_pc, entry_position,
                    block_ends, render_pc, played_samples, canvas >>

\* line 128: self.shared_position.lock(), once the loop is over
CallbackLock ==
    /\ audio_pc = "loop"
    /\ out_idx = Len(out)
    /\ mutex = "free"
    /\ mutex' = "audio"
    /\ audio_pc' = "locked"
    /\ UNCHANGED << parseVars, position, shared_position, out, out_idx,
                    entry_position, block_ends, render_pc, played_samples, canvas >>

\* mutant of CallbackStore: the published position wraps at the end of the data
CallbackStore_Wrapped ==
    /\ audio_pc = "locked"
    /\ mutex = "audio"
    /\ shared_position' = position % (Len(wav.data) + 1)
    /\ mutex' = "free"
    /\ audio_pc' = "idle"
    /\ block_ends' = block_ends \cup {entry_position + Len(out)}
    /\ UNCHANGED << parseVars, position, out, out_idx, entry_position, render_pc,
                    played_samples, canvas >>

\* line 128: the store through the guard; the guard is dropped and callback returns
CallbackStore ==
    /\ audio_pc = "locked"
    /\ mutex = "audio"
    /\ shared_position' = position
    /\ mutex' = "free"
    /\ audio_pc' = "idle"
    /\ block_ends' = block_ends \cup {entry_position + Len(out)}
    /\ UNCHANGED << parseVars, position, out, out_idx, entry_position, render_pc,
                    played_samples, canvas >>

(***************************************************************************)
(* draw_waveform (main.rs:195-225) on the 800x600 window of main.rs:159.   *)
(***************************************************************************)
samples_to_display == 4096
width == 800
height == 600

\* `(i as f32 / samples_to_display as f32 * width as f32) as i32`: i / 4096 and
\* its product with 800 are exact in f32 for 0 <= i <= 4096, and the cast truncates
x_of(i) == (i * width) \div samples_to_display

\* `center_y - (v as i32 * height as i32 / 2 / 32768)` with center_y = height / 2
y_of(v) == TruncDiv(height, 2) - TruncDiv(TruncDiv(v * height, 2), 32768)

\* mutant of draw_waveform: the window is not clipped to the buffer
draw_waveform_unclipped(wav_data, played) ==
    LET start == played
        end   == start + samples_to_display
    IN  IF start >= Len(wav_data)
        THEN [drawn |-> FALSE, panic |-> FALSE, start |-> start, end |-> end,
              segments |-> << >>]
        ELSE IF start > end \/ end > Len(wav_data)
        THEN [drawn |-> TRUE, panic |-> TRUE, start |-> start, end |-> end,
              segments |-> << >>]
        ELSE LET chunk == SubSeq(wav_data, start + 1, end)
                 n == IF Len(chunk) >= 1 THEN Len(chunk) - 1 ELSE 0
             IN  [drawn |-> TRUE, panic |-> FALSE, start |-> start, end |-> end,
                  segments |->
                     [k \in 1..n |->
                        [from |-> start + (k - 1), to |-> start + k,
                         x1 |-> x_of(k - 1), y1 |-> y_of(chunk[k]),
                         x2 |-> x_of(k), y2 |-> y_of(chunk[k + 1])]]]

\* The canvas after draw_waveform(canvas, wav, played_samples): whether the
\* function got past its early return, whether the slice wav.data[start..end]
\* panicked, the slice's bounds, and the lines drawn.  A line keeps the indices
\* into wav.data of the two samples it joins.
draw_waveform(wav_data, played) ==
    LET start == played
        end   == Min(start + samples_to_display, Len(wav_data))
    IN  IF start >= Len(wav_data)
        THEN [drawn |-> FALSE, panic |-> FALSE, start |-> start, end |-> end,
              segments |-> << >>]
        ELSE IF start > end \/ end > Len(wav_data)
        THEN [drawn |-> TRUE, panic |-> TRUE, start |-> start, end |-> end,
              segments |-> << >>]
        ELSE LET chunk == SubSeq(wav_data, start + 1, end)
                 n == IF Len(chunk) >= 1 THEN Len(chunk) - 1 ELSE 0
             IN  [drawn |-> TRUE, panic |-> FALSE, start |-> start, end |-> end,
                  segments |->
                     [k \in 1..n |->
                        [from |-> start + (k - 1), to |-> start + k,
                         x1 |-> x_of(k - 1), y1 |-> y_of(chunk[k]),
                         x2 |-> x_of(k), y2 |-> y_of(chunk[k + 1])]]]

(***************************************************************************)
(* main's render loop (main.rs:172-191).                                   *)
(***************************************************************************)
\* lines 173-175: canvas.clear(), then shared_position.lock()
RenderLock ==
    /\ Running
    /\ render_pc = "loop_top"
    /\ mutex = "free"
    /\ mutex' = "render"
    /\ canvas' = Canvas_clear
    /\ render_pc' = "locked"
    /\ UNCHANGED << parseVars, position, shared_position, audio_pc, out, out_idx,
                    entry_position, block_ends, played_samples >>

\* line 175: the load through the guard, which is dropped at the end of the statement
RenderLoad ==
    /\ render_pc = "locked"
    /\ mutex = "render"
    /\ played_samples' = shared_position
    /\ mutex' = "free"
    /\ render_pc' = "draw"
    /\ UNCHANGED << parseVars, position, shared_position, audio_pc, out, out_idx,
                    entry_position, block_ends, canvas >>

\* line 176
RenderDraw ==
    /\ render_pc = "draw"
    /\ canvas' = draw_waveform(wav.data, played_samples)
    /\ render_pc' = IF canvas'.panic THEN "exited" ELSE "poll"
    /\ main_result' = IF canvas'.panic THEN "panicked" ELSE main_result
    /\ UNCHANGED << source, file, data, wav, parse_result, position,
                    shared_position, mutex, audio_pc, out, out_idx, entry_position,
                    block_ends, played_samples >>

\* lines 178-190: a quit event breaks the loop, otherwise present and sleep
RenderPoll ==
    /\ render_pc = "poll"
    /\ \E quit \in BOOLEAN :
          render_pc' = IF quit THEN "exited" ELSE "loop_top"
    /\ UNCHANGED << parseVars, position, shared_position, mutex, audio_pc, out,
                    out_idx, entry_position, block_ends, played_samples, canvas >>

(***************************************************************************)
(* SpecPlay: the state after a successful parse and lines 139-170, then    *)
(* the audio thread and the render loop interleaved.                       *)
(***************************************************************************)
MaxPlaySamples == 3  \* longest SampleBuffer played

PlaySources ==
    { Source(MakeHeader(TagRIFF, TagWAVE, TagFmt, TagData, CanonicalProfile,
                        U32(2 * Len(samples))), samples, << >>) :
        samples \in SeqsUpTo({-32768, 1}, MaxPlaySamples) }

AfterParse(src) ==
    /\ source = src
    /\ file = FileOf(src)
    /\ LET r == parse(WAVFile_new, file)
       IN  /\ r.result = ResultOk
           /\ wav = r.wav
           /\ data = r.data
           /\ parse_result = r.result
    /\ main_result = "running"

InitPlay ==
    /\ \E src \in PlaySources : AfterParse(src)
    /\ position = 0
    /\ shared_position = 0
    /\ mutex = "free"
    /\ audio_pc = "idle"
    /\ out = << >>
    /\ out_idx = 0
    /\ entry_position = 0
    /\ block_ends = {0}
    /\ render_pc = "loop_top"
    /\ played_samples = 0
    /\ canvas = Canvas_clear

NextPlay ==
    \/ CallbackEnter
    \/ CallbackFill
    \/ CallbackLock
    \/ CallbackStore
    \/ RenderLock
    \/ RenderLoad
    \/ RenderDraw
    \/ RenderPoll

SpecPlay == InitPlay /\ [][NextPlay]_vars

(***************************************************************************)
(* SpecDraw: draw_waveform applied to sample buffers shorter than, as long *)
(* as and longer than its window, at positions before, at and past the end.*)
(***************************************************************************)
MaxAround == 2       \* how far lengths and positions range around 0 and 4096

\* a buffer of n samples, all different from their neighbours
DrawSamples(n) == [k \in 1..n |-> ((k * 7919) % 65536) - 32768]

DrawLengths ==
    0..MaxAround \cup (samples_to_display - MaxAround)..(samples_to_display + MaxAround)

DrawPositions ==
    0..(MaxAround + 1)
      \cup (samples_to_display - MaxAround - 1)..(samples_to_display + MaxAround + 1)

DrawSources ==
    { Source(MakeHeader(TagRIFF, TagWAVE, TagFmt, TagData, CanonicalProfile,
                        U32(2 * n)), DrawSamples(n), << >>) : n \in DrawLengths }

InitDraw ==
    /\ \E src \in DrawSources : AfterParse(src)
    /\ played_samples \in DrawPositions
    /\ position = played_samples
    /\ shared_position = played_samples
    /\ mutex = "free"
    /\ audio_pc = "idle"
    /\ out = << >>
    /\ out_idx = 0
    /\ entry_position = played_samples
    /\ block_ends = {0, played_samples}
    /\ render_pc = "draw"
    /\ canvas = Canvas_clear

NextDraw == RenderDraw

SpecDraw == InitDraw /\ [][NextDraw]_vars

(***************************************************************************)
(* Claims about the parser, checked under SpecParse.                       *)
(***************************************************************************)
Parsed == parse_result # "pending"

HasFullHeader == Len(file) >= HeaderLen

Declared == source.header.subchunk2_size

TagFieldNames == << "chunk_id", "format", "subchunk1_id", "subchunk2_id" >>

\* byte offset of each tag field in the file
TagOffset(name) ==
    CASE name = "chunk_id" -> 0
      [] name = "format" -> 8
      [] name = "subchunk1_id" -> 12
      [] name = "subchunk2_id" -> 36

TagValid(name) == Utf8Valid(source.header[name])

AllTagsValid == \A i \in 1..Len(TagFieldNames) : TagValid(TagFieldNames[i])

\* the first tag field, in file order, that is not valid text
FirstBadTag ==
    LET i == CHOOSE i \in 1..Len(TagFieldNames) :
                 /\ ~TagValid(TagFieldNames[i])
                 /\ \A j \in 1..(i - 1) : TagValid(TagFieldNames[j])
    IN  TagFieldNames[i]

PayloadTooShort == LenLessThan(Len(file) - HeaderLen, Declared)

\* C1: when the declared subchunk2_size exceeds the bytes that follow the 44-byte
\* header, parse fails with UnexpectedEndOfFile and leaves the WAVFile and the
\* caller's byte buffer as they were before the call.  (Stated for headers whose
\* tags are valid text, where parse reaches the size check.)
C1_EofMutatesNothing ==
    (Parsed /\ HasFullHeader /\ AllTagsValid /\ PayloadTooShort)
        => /\ parse_result = ResultErrEof
           /\ wav = WAVFile_new
           /\ data = file

\* C2: a buffer of fewer than 44 bytes makes parse return a TruncatedInput error
\* value; it does not panic.
C2_TruncatedInputIsReturned ==
    (Parsed /\ ~HasFullHeader)
        => /\ parse_result \notin {PanicIndex, PanicUnwrap}
           /\ parse_result = "Err(truncated input)"

\* C3: with at least 44 bytes and a tag field that is not valid UTF-8, parse
\* returns an InvalidEncoding error to its caller, and the failed tag read has
\* consumed nothing: the buffer still starts at that tag.
C3_InvalidEncodingIsReturned ==
    (Parsed /\ HasFullHeader /\ ~AllTagsValid)
        => /\ parse_result = "Err(invalid encoding)"
           /\ main_result # "panicked"
           /\ data = Drain(file, TagOffset(FirstBadTag))

\* C6: a 44-byte header with valid tags followed by at least N = subchunk2_size
\* bytes parses successfully to exactly floor(N/2) samples, for N even or odd.
C6_SampleCountIsHalfDeclared ==
    (Parsed /\ HasFullHeader /\ AllTagsValid /\ ~PayloadTooShort)
        => /\ parse_result = ResultOk
           /\ Len(wav.data) = as_usize(Declared) \div 2

\* an odd declared size, with bytes left over after the payload
C6_Witness ==
    /\ Parsed /\ HasFullHeader /\ AllTagsValid /\ ~PayloadTooShort
    /\ Declared = U32(3)
    /\ Len(file) - HeaderLen > 3
    /\ parse_result = ResultOk
    /\ Len(wav.data) = 1

\* the file is exactly the encoding of the source: valid tags, the declared size
\* is that of the samples, and nothing follows them
MinimalValidFile ==
    /\ AllTagsValid
    /\ Declared = U32(2 * Len(source.samples))
    /\ file = EncodeFile(source.header, source.samples, << >>)

\* C7: round trip: parsing the encoding of header values and a sample sequence
\* yields the same header values and the same samples; the example payload
\* 00 00 FF 7F 00 80 01 00 parses to 0, 32767, -32768, 1.
C7_RoundTrip ==
    (Parsed /\ MinimalValidFile)
        => /\ parse_result = ResultOk
           /\ wav.header = source.header
           /\ wav.data = source.samples
           /\ (SubSeq(file, HeaderLen + 1, Len(file)) = << 0, 0, 255, 127, 0, 128, 1, 0 >>
                 => wav.data = << 0, 32767, -32768, 1 >>)

C7_Witness ==
    /\ Parsed /\ MinimalValidFile
    /\ SubSeq(file, HeaderLen + 1, Len(file)) = << 0, 0, 255, 127, 0, 128, 1, 0 >>
    /\ wav.header.sample_rate = U32(44100)
    /\ wav.header.num_channels = 2
    /\ wav.header.bits_per_sample = 16
    /\ wav.data = << 0, 32767, -32768, 1 >>

(***************************************************************************)
(* Claims about playback, checked under SpecPlay.                          *)
(***************************************************************************)
SetMax(S) == CHOOSE m \in S : \A x \in S : x <= m

\* a callback has returned and the next one has not been entered
CallbackDone == audio_pc = "idle" /\ out # << >>

\* C4: whatever the number of callbacks after the end of the sample data, the
\* position the render thread reads is at most the SampleBuffer length plus one
\* buffer-fill increment (here the longest block the device asks for).
C4_ReadWithinOneBlockOfEnd ==
    played_samples <= Len(wav.data) + MaxBlock

\* C5: the shared position never decreases: every store writes a value at least
\* the previous one, and a later read by the render loop never returns less
\* than an earlier one.
C5_PositionNeverDecreases ==
    [][/\ shared_position' >= shared_position
       /\ played_samples' >= played_samples]_vars

\* the render loop has read a position, and the audio thread has since
\* published a larger one that lies past the end of the data
C5_Witness ==
    /\ played_samples > 0
    /\ shared_position > played_samples
    /\ shared_position > Len(wav.data)

\* C8: a callback with a block of B elements entered at cursor p writes
\* out[k] = SampleBuffer[p+k] where p+k is inside the buffer and 0 elsewhere,
\* writes the whole block, advances the cursor by exactly B, and only then
\* publishes p+B to the shared position.
C8_CallbackFillsBlock ==
    /\ (audio_pc = "locked" \/ CallbackDone) => position = entry_position + Len(out)
    /\ audio_pc = "locked" => shared_position = entry_position
    /\ CallbackDone =>
         /\ shared_position = entry_position + Len(out)
         /\ \A k \in 0..(Len(out) - 1) :
               out[k + 1] = IF entry_position + k < Len(wav.data)
                            THEN wav.data[entry_position + k + 1]
                            ELSE 0

\* a completed callback whose block begins inside the data and ends past it
C8_Witness ==
    /\ CallbackDone
    /\ entry_position < Len(wav.data)
    /\ entry_position + Len(out) > Len(wav.data)
    /\ out[1] = -32768
    /\ out[Len(out)] = 0

\* C10: the render thread never sees a partially advanced position: what it
\* reads is 0 or the sum of the block lengths of the callbacks completed so
\* far, never the cursor in the middle of a buffer fill; only the callback,
\* holding the lock, writes the shared position.
C10_NoPartialPosition ==
    /\ [](/\ shared_position = SetMax(block_ends)
          /\ played_samples \in block_ends
          /\ (audio_pc = "loop" /\ out_idx > 0 => shared_position # position))
    /\ [][/\ (render_pc = "locked" /\ render_pc' = "draw")
                => played_samples' = SetMax(block_ends)
          /\ shared_position' # shared_position
                => audio_pc = "locked" /\ mutex = "audio"]_vars

\* the render loop read the position while a later callback was in mid-fill
C10_Witness ==
    /\ render_pc = "draw"
    /\ played_samples > 0
    /\ audio_pc = "loop"
    /\ out_idx > 0
    /\ out_idx < Len(out)
    /\ position > played_samples

(***************************************************************************)
(* Claims about draw_waveform, checked under SpecDraw.                     *)
(***************************************************************************)
Drawn == render_pc \in {"poll", "exited"}

\* C9: draw_waveform never indexes outside the SampleBuffer.  At a position at
\* or past the end nothing is drawn; otherwise exactly the samples at indices
\* position .. min(position + 4096, length) - 1 are drawn, joined by
\* min(4096, length - position) - 1 line segments.
C9_DrawStaysInsideBuffer ==
    Drawn =>
      LET len == Len(wav.data)
          p == played_samples
          last == Min(p + 4096, len) - 1
      IN  /\ ~canvas.panic
          /\ main_result = "running"
          /\ p >= len => ~canvas.drawn /\ canvas.segments = << >>
          /\ p < len =>
               /\ canvas.drawn
               /\ Len(canvas.segments) = Min(4096, len - p) - 1
               /\ \A k \in 1..Len(canvas.segments) :
                     /\ canvas.segments[k].from = p + k - 1
                     /\ canvas.segments[k].to = p + k
                     /\ canvas.segments[k].to <= last
                     /\ canvas.segments[k].y1 = y_of(wav.data[p + k])
                     /\ canvas.segments[k].y2 = y_of(wav.data[p + k + 1])
               /\ (p < last =>
                     canvas.segments[Len(canvas.segments)].to = last)

\* the window is clipped by its own size, not by the end of the buffer; and
\* the example of the spec: position 0, 4096 samples, width 800
C9_Witness ==
    /\ Drawn
    /\ Len(wav.data) > played_samples + 4096
    /\ played_samples > 0
    /\ Len(canvas.segments) = 4095
    /\ canvas.segments[1].x1 = 0
    /\ canvas.segments[4095].x2 = 799

====
